---- MODULE Spec2Model ----
(***************************************************************************)
(* towncrier check: one run of __main (src/src/towncrier/check.py).        *)
(*                                                                         *)
(* Strings that the code only compares are TLA+ strings.  A path is the    *)
(* sequence of its "/"-separated segments; an absolute path starts with    *)
(* the segment "/".  The output of `git diff --name-only` is a sequence of *)
(* lines, each line a path; a line that holds only whitespace is <<>> (the *)
(* empty line) or <<WS>>.  The output of `git branch -r` is a sequence of  *)
(* lines, each with its leading blanks, its text and its trailing blanks.  *)
(***************************************************************************)
EXTENDS Integers, Sequences, FiniteSets, TLC

\* ---------------------------------------------------------------- bounds
MaxBranches == 3      \* lines printed by `git branch -r`
MaxDiffLines == 2     \* lines printed by `git diff --name-only`
MaxFragments == 2     \* fragment files returned by find_fragments

\* ------------------------------------------------------------ vocabulary
None == "<None>"      \* Python's None, where a string is expected
WS == "  "            \* a run of blanks
NotUtf8 == "latin1-name.py"          \* a file name whose bytes are not UTF-8
NotUtf8Branch == "origin/latin1-name"  \* a branch name whose bytes are not UTF-8

Root == "/"
IsAbs(p) == p # <<>> /\ p[1] = Root

\* Sequences over S of length at most n.
SeqsUpTo(S, n) == UNION {[1..k -> S] : k \in 0..n}

\* Python: x in list, as a left-to-right scan.
RECURSIVE In(_, _)
In(x, list) ==
    IF list = <<>> THEN FALSE
    ELSE IF Head(list) = x THEN TRUE
    ELSE In(x, Tail(list))

\* ------------------------------------------------------------ os.path
\* posixpath.join(a, b): an absolute b discards a.
join(a, b) == IF IsAbs(b) THEN b ELSE a \o b

RECURSIVE NormSegs(_, _, _)
NormSegs(segs, acc, abs) ==
    IF segs = <<>> THEN acc
    ELSE LET s == Head(segs)
             r == Tail(segs)
         IN  IF s = "" \/ s = "." THEN NormSegs(r, acc, abs)
             ELSE IF s = ".."
                  THEN IF acc # <<>> /\ acc[Len(acc)] # ".."
                       THEN NormSegs(r, SubSeq(acc, 1, Len(acc) - 1), abs)
                       ELSE IF abs THEN NormSegs(r, acc, abs)
                       ELSE NormSegs(r, Append(acc, ".."), abs)
             ELSE NormSegs(r, Append(acc, s), abs)

\* posixpath.normpath: drops "" and "." segments, resolves "..".
normpath(p) ==
    IF IsAbs(p) THEN <<Root>> \o NormSegs(Tail(p), <<>>, TRUE)
    ELSE LET n == NormSegs(p, <<>>, FALSE)
         IN  IF n = <<>> THEN <<".">> ELSE n

\* The process's working directory, and posixpath.abspath against it.
Cwd == <<Root, "repo">>
abspath(p) == normpath(join(Cwd, p))

\* ------------------------------------------------------------ inputs
CompareWithOptions == {None, "origin/main", "feature"}

\* sys.stdout: without an encoding attribute, with encoding None, or with
\* an encoding of its own.
StdoutEncodings == {"absent", None, "latin1"}

BaseDirectories == {<<Root, "repo">>}

\* Two configurations: the defaults, and one that names the news file and
\* the fragment directory with a leading "./".
Configs ==
    {[filename |-> <<"NEWS.rst">>, directory |-> <<>>,
      package_dir |-> <<".">>, package |-> <<>>],
     [filename |-> <<".", "NEWS.rst">>, directory |-> <<".", "newsfragments">>,
      package_dir |-> <<".">>, package |-> <<>>]}

BranchNames ==
    {"origin/main", "origin/master", "origin/HEAD -> origin/main",
     NotUtf8Branch, ""}
BranchLines == [lead : {0, 2}, text : BranchNames, trail : {0}]
BranchOutputs == SeqsUpTo(BranchLines, MaxBranches)

\* git quotes the bytes of a path above 0x7f with backslash escapes
\* (core.quotePath), so what `git diff --name-only` prints is ASCII.
DiffLines ==
    {<<>>, <<WS>>, <<"NEWS.rst">>, <<"newsfragments", "1.feature">>,
     <<"newsfragments", "2.bugfix">>, <<"src", "f.py">>}
DiffOutputs == SeqsUpTo(DiffLines, MaxDiffLines)

\* What git prints when it fails (stderr merged into stdout by _run).
ErrorOutputs == {"fatal: not a git repository", "fatal: bad revision"}

\* File names find_fragments may find below the fragment directory, the
\* first spelled with a "." segment.
FragmentFiles == {<<".", "1.feature">>, <<"2.bugfix">>}
FragmentFinds == {F \in SUBSET FragmentFiles : Cardinality(F) <= MaxFragments}

\* ------------------------------------------------------------ state
VARIABLES
    pc,                  \* the statement __main is about to run
    compare_with_option, \* --compare-with as given (None when omitted)
    stdout_encoding,     \* sys.stdout's encoding attribute
    base_directory,      \* from load_config_from_options
    config,              \* from load_config_from_options
    encoding,            \* local of __main
    comparewith,         \* local of __main
    branches,            \* the list handed to _get_default_compare_branch
    warned,              \* a DeprecationWarning was issued
    diff_output,         \* what a successful `git diff` printed
    files_changed,       \* local of __main: decoded, stripped diff output
    files,               \* local of __main
    fragments,           \* local of __main
    fragments_in_branch, \* local of __main
    echoed,              \* what click.echo has written, in order
    calls,               \* the collaborators invoked, in order
    raised,              \* the exception that left __main, if any
    exit_status,         \* <<>> while running, <<code>> once the process ended
    outcome              \* how the run ended (None while running)

vars ==
    <<pc, compare_with_option, stdout_encoding, base_directory, config,
      encoding, comparewith, branches, warned, diff_output, files_changed,
      files, fragments, fragments_in_branch, echoed, calls, raised,
      exit_status, outcome>>

inputs == <<compare_with_option, stdout_encoding, base_directory, config>>

NoException == [type |-> None, output |-> None]

Echo(msg, n, text, path) == [msg |-> msg, n |-> n, text |-> text, path |-> path]
Say(msg) == Echo(msg, 0, "", <<>>)

\* One invocation of a collaborator: what was run, the branch handed to
\* git diff, the directory, the fragment subdirectory, whether the process
\* exited with status zero, and what a failing process printed.
Call(fn, branch, base, dir, ok, out) ==
    [fn |-> fn, branch |-> branch, base |-> base, dir |-> dir, ok |-> ok, out |-> out]

\* enumerate(set, start=1): the set's members in some order, numbered.
Orders(S) == {o \in [1..Cardinality(S) -> S] : \A i, j \in DOMAIN o : o[i] = o[j] => i = j}
Numbered(o, msg) == [i \in DOMAIN o |-> Echo(msg, i, "", o[i])]

Init ==
    /\ pc = "encoding"
    /\ compare_with_option \in CompareWithOptions
    /\ stdout_encoding \in StdoutEncodings
    /\ base_directory \in BaseDirectories
    /\ config \in Configs
    /\ encoding = None
    /\ comparewith = compare_with_option
    /\ branches = <<>>
    /\ warned = FALSE
    /\ diff_output = <<>>
    /\ files_changed = <<>>
    /\ files = {}
    /\ fragments = {}
    /\ fragments_in_branch = {}
    /\ echoed = <<>>
    /\ calls = <<>>
    /\ raised = NoException
    /\ exit_status = <<>>
    /\ outcome = None

\* ------------------------------------------------------------ helpers
\* getattr(sys.stdout, "encoding", "utf8"): the default is used only when
\* the attribute is missing.
getattr_encoding(enc) == IF enc = "absent" THEN "utf8" ELSE enc

\* bytes.decode(enc): the exception raised, or None.
DecodeError(notUtf8, enc) ==
    IF enc = None THEN "TypeError"
    ELSE IF enc = "utf8" /\ notUtf8 THEN "UnicodeDecodeError"
    ELSE None

BranchNotUtf8(out) == \E i \in DOMAIN out : out[i].text = NotUtf8Branch
DiffNotUtf8(out) == \E i \in DOMAIN out : \E k \in DOMAIN out[i] : out[i][k] = NotUtf8

\* str.strip() of one line of `git branch -r`.
strip(line) == line.text

\* [branch.strip() for branch in output.splitlines()]
_get_remote_branches(out) == [i \in DOMAIN out |-> strip(out[i])]

\* Mutant: the legacy name is looked for first.
_get_default_compare_branch_master_first(list) ==
    IF In("origin/master", list) THEN [branch |-> "origin/master", warn |-> TRUE]
    ELSE IF In("origin/main", list) THEN [branch |-> "origin/main", warn |-> FALSE]
    ELSE [branch |-> None, warn |-> FALSE]

_get_default_compare_branch(list) ==
    IF In("origin/main", list) THEN [branch |-> "origin/main", warn |-> FALSE]
    ELSE IF In("origin/master", list) THEN [branch |-> "origin/master", warn |-> TRUE]
    ELSE [branch |-> None, warn |-> FALSE]

\* A line of diff output that holds nothing but whitespace.
IsBlank(line) == \A k \in DOMAIN line : line[k] = WS

\* str.strip() of the whole diff output: leading and trailing whitespace,
\* line ends included, is dropped; lines in between are kept as they are.
RECURSIVE DropLeading(_)
DropLeading(text) ==
    IF text = <<>> THEN <<>>
    ELSE IF IsBlank(Head(text)) THEN DropLeading(Tail(text))
    ELSE text

RECURSIVE DropTrailing(_)
DropTrailing(text) ==
    IF text = <<>> THEN <<>>
    ELSE IF IsBlank(text[Len(text)]) THEN DropTrailing(SubSeq(text, 1, Len(text) - 1))
    ELSE text

strip_text(text) == DropTrailing(DropLeading(text))

\* {normpath(join(base_directory, path)) for path in files_changed.splitlines()}
changed_files(base, text) == {normpath(join(base, text[i])) : i \in DOMAIN text}

news_file_of(base, cfg) == normpath(join(base, cfg.filename))

\* Lines 126-133: where find_fragments is told to look.
fragment_base_directory_of(base, cfg) ==
    IF cfg.directory # <<>> THEN abspath(cfg.directory)
    ELSE abspath(join(join(base, cfg.package_dir), cfg.package))

fragment_directory_of(cfg) ==
    IF cfg.directory # <<>> THEN <<>> ELSE <<"newsfragments">>

\* sys.exit(code), or an exception leaving __main: the process ends.  The
\* interpreter ends with status 1 on an exception nothing caught.
Exit(code, how, exc) ==
    /\ pc' = "done"
    /\ exit_status' = <<code>>
    /\ outcome' = how
    /\ raised' = exc

Continue(next) ==
    /\ pc' = next
    /\ UNCHANGED <<exit_status, outcome, raised>>

\* ------------------------------------------------------------ __main
\* Line 81.
GetEncoding ==
    /\ pc = "encoding"
    /\ encoding' = getattr_encoding(stdout_encoding)
    /\ Continue("default_branch")
    /\ UNCHANGED <<inputs, comparewith, branches, warned, diff_output,
                   files_changed, files, fragments, fragments_in_branch,
                   echoed, calls>>

\* Line 82, --compare-with given: the branch listing is skipped.
CompareWithGiven ==
    /\ pc = "default_branch"
    /\ comparewith # None
    /\ Continue("check_branch")
    /\ UNCHANGED <<inputs, encoding, comparewith, branches, warned,
                   diff_output, files_changed, files, fragments,
                   fragments_in_branch, echoed, calls>>

\* Lines 82-85 and 23, `git branch -r` exits non-zero: check_output raises
\* CalledProcessError, which nothing in __main catches.
RemoteBranchesFailed ==
    /\ pc = "default_branch"
    /\ comparewith = None
    /\ \E out \in ErrorOutputs :
          /\ calls' = Append(calls, Call("git branch -r", None, base_directory, <<>>, FALSE, out))
          /\ Exit(1, "BranchListFailed", [type |-> "CalledProcessError", output |-> out])
    /\ UNCHANGED <<inputs, encoding, comparewith, branches, warned,
                   diff_output, files_changed, files, fragments,
                   fragments_in_branch, echoed>>

\* Lines 82-85 and 23, the listing cannot be decoded: decode raises.
RemoteBranchesUndecodable ==
    /\ pc = "default_branch"
    /\ comparewith = None
    /\ \E out \in BranchOutputs :
          /\ DecodeError(BranchNotUtf8(out), encoding) # None
          /\ Exit(1, "DecodeFailed",
                  [type |-> DecodeError(BranchNotUtf8(out), encoding), output |-> None])
    /\ calls' = Append(calls, Call("git branch -r", None, base_directory, <<>>, TRUE, None))
    /\ UNCHANGED <<inputs, encoding, comparewith, branches, warned,
                   diff_output, files_changed, files, fragments,
                   fragments_in_branch, echoed>>

\* Mutant: the branches are listed and the default chosen even when
\* --compare-with was given.
DefaultCompareBranch_Always ==
    /\ pc = "default_branch"
    /\ \E out \in BranchOutputs :
          /\ DecodeError(BranchNotUtf8(out), encoding) = None
          /\ branches' = _get_remote_branches(out)
          /\ comparewith' = _get_default_compare_branch(branches').branch
          /\ warned' = _get_default_compare_branch(branches').warn
    /\ calls' = Append(calls, Call("git branch -r", None, base_directory, <<>>, TRUE, None))
    /\ Continue("check_branch")
    /\ UNCHANGED <<inputs, encoding, diff_output, files_changed, files,
                   fragments, fragments_in_branch, echoed>>

\* Lines 82-85: the branches are listed and the default is chosen.
DefaultCompareBranch ==
    /\ pc = "default_branch"
    /\ comparewith = None
    /\ \E out \in BranchOutputs :
          /\ DecodeError(BranchNotUtf8(out), encoding) = None
          /\ branches' = _get_remote_branches(out)
          /\ comparewith' = _get_default_compare_branch(branches').branch
          /\ warned' = _get_default_compare_branch(branches').warn
    /\ calls' = Append(calls, Call("git branch -r", None, base_directory, <<>>, TRUE, None))
    /\ Continue("check_branch")
    /\ UNCHANGED <<inputs, encoding, diff_output, files_changed, files,
                   fragments, fragments_in_branch, echoed>>

\* Lines 87-89.
NoDefaultBranch ==
    /\ pc = "check_branch"
    /\ comparewith = None
    /\ echoed' = Append(echoed, Say("Could not detect default branch. Aborting."))
    /\ Exit(1, "NoDefaultBranch", NoException)
    /\ UNCHANGED <<inputs, encoding, comparewith, branches, warned,
                   diff_output, files_changed, files, fragments,
                   fragments_in_branch, calls>>

\* Line 87, a branch to compare with is known.  The branch list of lines
\* 83-85 is a temporary and is gone by now.
BranchResolved ==
    /\ pc = "check_branch"
    /\ comparewith # None
    /\ branches' = <<>>
    /\ Continue("diff")
    /\ UNCHANGED <<inputs, encoding, comparewith, warned, diff_output,
                   files_changed, files, fragments, fragments_in_branch,
                   echoed, calls>>

\* Mutant: a failing `git diff` is tried again.
DiffFailed_Retries ==
    /\ pc = "diff"
    /\ Continue("check_branch")
    /\ UNCHANGED <<inputs, encoding, comparewith, branches, warned,
                   diff_output, files_changed, files, fragments,
                   fragments_in_branch, echoed, calls>>

\* Mutant: the except clause echoes the output and does not raise again,
\* so the run goes on with nothing in files_changed.
DiffFailed_Swallowed ==
    /\ pc = "diff"
    /\ \E out \in ErrorOutputs :
          /\ echoed' = echoed \o <<Say("git produced output while failing:"),
                                   Echo("e.output", 0, out, <<>>)>>
          /\ calls' = Append(calls, Call("git diff --name-only", comparewith,
                                         base_directory, <<>>, FALSE, out))
    /\ Continue("check_diff")
    /\ UNCHANGED <<inputs, encoding, comparewith, branches, warned,
                   diff_output, files_changed, files, fragments,
                   fragments_in_branch>>

\* Lines 91-102, `git diff` exits non-zero: its output is echoed and the
\* CalledProcessError is raised again.
DiffFailed ==
    /\ pc = "diff"
    /\ \E out \in ErrorOutputs :
          /\ echoed' = echoed \o <<Say("git produced output while failing:"),
                                   Echo("e.output", 0, out, <<>>)>>
          /\ Exit(1, "DiffFailed", [type |-> "CalledProcessError", output |-> out])
          /\ calls' = Append(calls, Call("git diff --name-only", comparewith,
                                         base_directory, <<>>, FALSE, out))
    /\ UNCHANGED <<inputs, encoding, comparewith, branches, warned,
                   diff_output, files_changed, files, fragments,
                   fragments_in_branch>>

\* Lines 92-98, the diff output cannot be decoded: decode raises, and the
\* except clause of line 99 does not catch it.
DiffUndecodable ==
    /\ pc = "diff"
    /\ \E out \in DiffOutputs :
          /\ DecodeError(DiffNotUtf8(out), encoding) # None
          /\ diff_output' = out
          /\ Exit(1, "DecodeFailed",
                  [type |-> DecodeError(DiffNotUtf8(out), encoding), output |-> None])
    /\ calls' = Append(calls, Call("git diff --name-only", comparewith, base_directory, <<>>, TRUE, None))
    /\ UNCHANGED <<inputs, encoding, comparewith, branches, warned,
                   files_changed, files, fragments, fragments_in_branch,
                   echoed>>

\* Lines 92-98.
DiffCollected ==
    /\ pc = "diff"
    /\ \E out \in DiffOutputs :
          /\ DecodeError(DiffNotUtf8(out), encoding) = None
          /\ diff_output' = out
          /\ files_changed' = strip_text(out)
    /\ calls' = Append(calls, Call("git diff --name-only", comparewith, base_directory, <<>>, TRUE, None))
    /\ Continue("check_diff")
    /\ UNCHANGED <<inputs, encoding, comparewith, branches, warned, files,
                   fragments, fragments_in_branch, echoed>>

\* Lines 104-108.
NoDiff ==
    /\ pc = "check_diff"
    /\ files_changed = <<>>
    /\ echoed' = Append(echoed,
                        Echo("On {comparewith} branch, or no diffs, so no newsfragment required.",
                             0, comparewith, <<>>))
    /\ Exit(0, "NoDiff", NoException)
    /\ UNCHANGED <<inputs, encoding, comparewith, branches, warned,
                   diff_output, files_changed, files, fragments,
                   fragments_in_branch, calls>>

\* Lines 104 and 110-119.
LookAtFiles ==
    /\ pc = "check_diff"
    /\ files_changed # <<>>
    /\ files' = changed_files(base_directory, files_changed)
    /\ \E o \in Orders(files') :
          echoed' = echoed \o <<Say("Looking at these files:"), Say("----")>>
                           \o Numbered(o, "{n}. {change}") \o <<Say("----")>>
    /\ Continue("news_file")
    /\ UNCHANGED <<inputs, encoding, comparewith, branches, warned,
                   diff_output, files_changed, fragments,
                   fragments_in_branch, calls>>

\* Lines 121-124.
NewsFileChanged ==
    /\ pc = "news_file"
    /\ news_file_of(base_directory, config) \in files
    /\ echoed' = Append(echoed, Say("Checks SKIPPED: news file changes detected."))
    /\ Exit(0, "NewsFileEdited", NoException)
    /\ UNCHANGED <<inputs, encoding, comparewith, branches, warned,
                   diff_output, files_changed, files, fragments,
                   fragments_in_branch, calls>>

\* Lines 122 and 126-144: find_fragments finds some files below the
\* directory it is told to search.
FindFragments ==
    /\ pc = "news_file"
    /\ news_file_of(base_directory, config) \notin files
    /\ LET fbd == fragment_base_directory_of(base_directory, config)
           fd == fragment_directory_of(config)
       IN  /\ \E found \in FragmentFinds :
                 fragments' = {normpath(join(join(fbd, fd), f)) : f \in found}
           /\ calls' = Append(calls, Call("find_fragments", None, fbd, fd, TRUE, None))
    /\ fragments_in_branch' = fragments' \cap files
    /\ Continue("report")
    /\ UNCHANGED <<inputs, encoding, comparewith, branches, warned,
                   diff_output, files_changed, files, echoed>>

\* Mutant: the missing fragment is reported with exit status 0.
NotFound_ExitsZero ==
    /\ pc = "report"
    /\ fragments_in_branch = {}
    /\ echoed' = Append(echoed, Say("No new newsfragments found on this branch."))
    /\ Exit(0, "NotFound", NoException)
    /\ UNCHANGED <<inputs, encoding, comparewith, branches, warned,
                   diff_output, files_changed, files, fragments,
                   fragments_in_branch, calls>>

\* Lines 146-148.
NotFound ==
    /\ pc = "report"
    /\ fragments_in_branch = {}
    /\ echoed' = Append(echoed, Say("No new newsfragments found on this branch."))
    /\ Exit(1, "NotFound", NoException)
    /\ UNCHANGED <<inputs, encoding, comparewith, branches, warned,
                   diff_output, files_changed, files, fragments,
                   fragments_in_branch, calls>>

\* Lines 149-153.
Found ==
    /\ pc = "report"
    /\ fragments_in_branch # {}
    /\ \E o \in Orders(fragments_in_branch) :
          echoed' = echoed \o <<Say("Found:")>> \o Numbered(o, "{n}. {fragment}")
    /\ Exit(0, "Found", NoException)
    /\ UNCHANGED <<inputs, encoding, comparewith, branches, warned,
                   diff_output, files_changed, files, fragments,
                   fragments_in_branch, calls>>

Next ==
    \/ GetEncoding
    \/ CompareWithGiven
    \/ RemoteBranchesFailed
    \/ RemoteBranchesUndecodable
    \/ DefaultCompareBranch
    \/ NoDefaultBranch
    \/ BranchResolved
    \/ DiffFailed
    \/ DiffUndecodable
    \/ DiffCollected
    \/ NoDiff
    \/ LookAtFiles
    \/ NewsFileChanged
    \/ FindFragments
    \/ NotFound
    \/ Found

Spec == Init /\ [][Next]_vars

\* Every call of __main is blocking and the interpreter runs the next
\* statement as soon as the last one returned: a run that can step, steps.
FairSpec == Spec /\ WF_vars(Next)

\* ------------------------------------------------------------ properties
Ended == pc = "done"

Called(fn) == \E i \in DOMAIN calls : calls[i].fn = fn
Said(msg) == \E i \in DOMAIN echoed : echoed[i].msg = msg

\* `git diff` ran and exited with status zero / non-zero.
DiffSucceeded == \E i \in DOMAIN calls : calls[i].fn = "git diff --name-only" /\ calls[i].ok
DiffExitedNonZero == \E i \in DOMAIN calls : calls[i].fn = "git diff --name-only" /\ ~calls[i].ok
BranchListingExitedNonZero == \E i \in DOMAIN calls : calls[i].fn = "git branch -r" /\ ~calls[i].ok

\* The changed-file set that git's diff output stands for.
ChangedFileSet == changed_files(base_directory, strip_text(diff_output))
NewsFile == news_file_of(base_directory, config)

SuccessEnds == {"NoDiff", "NewsFileEdited", "Found"}
FailureEnds == {"NoDefaultBranch", "DiffFailed", "NotFound"}
TerminalStates == {"NoDefaultBranch", "NoDiff", "NewsFileEdited", "NotFound", "Found"}
\* Ends by an exception that leaves __main.
RaisedEnds == {"BranchListFailed", "DiffFailed", "DecodeFailed"}

\* C1, as claimed: the exit status is 0 exactly when the run ends in no
\* diffs, news file edited or fragments found; it is 1 exactly when the run
\* ends in no default branch, diff command failed or no fragment found; no
\* run ends with another status.
C1_ExitStatus_AsClaimed ==
    Ended =>
        /\ exit_status \in {<<0>>, <<1>>}
        /\ exit_status = <<0>> <=> outcome \in SuccessEnds
        /\ exit_status = <<1>> <=> outcome \in FailureEnds

\* C1, amended: the exit status is 0 exactly when the run ends in no diffs,
\* news file edited or fragments found; it is 1 exactly when the run ends in
\* no default branch, branch listing failed, diff command failed, git
\* output not decodable, or no fragment found; no run ends with another
\* status.
C1_ExitStatus ==
    Ended =>
        /\ exit_status \in {<<0>>, <<1>>}
        /\ exit_status = <<0>> <=> outcome \in SuccessEnds
        /\ exit_status = <<1>> <=>
              outcome \in FailureEnds \cup {"BranchListFailed", "DecodeFailed"}

\* A run that ended because `git branch -r` exited non-zero.
C1_Witness ==
    /\ Ended
    /\ outcome = "BranchListFailed"
    /\ BranchListingExitedNonZero
    /\ exit_status = <<1>>

\* C2: _get_default_compare_branch returns "origin/main" if an entry equal
\* to it is in the list; otherwise "origin/master" if an entry equal to it
\* is in the list, and then, and only then, warns; otherwise None.
C2_DefaultBranchPriority ==
    (pc = "check_branch" /\ Called("git branch -r")) =>
        IF \E i \in DOMAIN branches : branches[i] = "origin/main"
        THEN comparewith = "origin/main" /\ ~warned
        ELSE IF \E i \in DOMAIN branches : branches[i] = "origin/master"
        THEN comparewith = "origin/master" /\ warned
        ELSE comparewith = None /\ ~warned

\* A list with an entry that only contains "origin/main", and
\* "origin/master" twice.
C2_Witness ==
    /\ pc = "check_branch"
    /\ branches = <<"origin/HEAD -> origin/main", "origin/master", "origin/master">>
    /\ comparewith = "origin/master"
    /\ warned

\* C3, as claimed: whenever the diff succeeds and the news file is in the
\* changed-file set, the run ends in NewsFileEdited with exit status 0 and
\* fragment discovery is never invoked.
C3_NewsFileSkips_AsClaimed ==
    (Ended /\ DiffSucceeded /\ NewsFile \in ChangedFileSet) =>
        /\ outcome = "NewsFileEdited"
        /\ exit_status = <<0>>
        /\ ~Called("find_fragments")

\* C4, as claimed: whenever the diff command succeeds and its output is
\* empty after trimming, the run ends in NoDiff with exit status 0, no
\* changed-file list is reported and fragment discovery is never invoked.
C4_EmptyDiff_AsClaimed ==
    (Ended /\ DiffSucceeded /\ strip_text(diff_output) = <<>>) =>
        /\ outcome = "NoDiff"
        /\ exit_status = <<0>>
        /\ ~Said("Looking at these files:")
        /\ ~Called("find_fragments")

\* The paths listed after "Found:", each with the number of times listed.
ListedAsFound(p) ==
    Cardinality({i \in DOMAIN echoed :
                    echoed[i].msg = "{n}. {fragment}" /\ echoed[i].path = p})

\* C5, as claimed: when the diff is non-empty and the news file is not
\* among the changed files, the run ends in Found with exit status 0 if the
\* fragments discovered and the changed files intersect, and in NotFound
\* with exit status 1 otherwise; in Found the paths listed are exactly the
\* intersection, each once.
C5_FragmentMatch_AsClaimed ==
    (Ended /\ DiffSucceeded /\ strip_text(diff_output) # <<>>
        /\ NewsFile \notin ChangedFileSet) =>
        /\ Called("find_fragments")
        /\ IF fragments \cap ChangedFileSet # {}
           THEN /\ outcome = "Found"
                /\ exit_status = <<0>>
                /\ \A p \in fragments \cap ChangedFileSet : ListedAsFound(p) = 1
                /\ \A i \in DOMAIN echoed :
                      echoed[i].msg = "{n}. {fragment}" =>
                          echoed[i].path \in fragments \cap ChangedFileSet
           ELSE /\ outcome = "NotFound"
                /\ exit_status = <<1>>

\* C6, as claimed: a run that has ended has ended in one of
\* NoDefaultBranch, NoDiff, NewsFileEdited, NotFound, Found.
C6_FiveTerminalStates_AsClaimed == Ended => outcome \in TerminalStates

\* A run that has ended is in one terminal state; a run that has not is in
\* none.
InOneState ==
    /\ Ended <=> outcome \in TerminalStates \cup RaisedEnds
    /\ ~Ended => outcome = None /\ exit_status = <<>>

\* C6, amended: every run eventually ends, in exactly one of
\* NoDefaultBranch, NoDiff, NewsFileEdited, NotFound, Found or, by an
\* exception, BranchListFailed, DiffFailed, DecodeFailed; a run that has
\* not ended is in none of them, and a run that has ended takes no
\* further step.
C6_OneTerminalState ==
    /\ <>Ended
    /\ InOneState
    /\ [][~Ended /\ InOneState']_vars

\* A run that ended because `git diff` exited non-zero.
C6_Witness ==
    /\ Ended
    /\ outcome = "DiffFailed"
    /\ DiffExitedNonZero
    /\ raised.type = "CalledProcessError"

\* C7: once `git diff` has exited non-zero the run has ended by the
\* CalledProcessError, with a non-zero exit status, having echoed the
\* notice and the captured output of that process and nothing else, and
\* without invoking fragment discovery.
C7_DiffFailureIsHardStop ==
    \A i \in DOMAIN calls :
        (calls[i].fn = "git diff --name-only" /\ ~calls[i].ok) =>
            /\ Ended
            /\ raised = [type |-> "CalledProcessError", output |-> calls[i].out]
            /\ exit_status = <<1>>
            /\ echoed = <<Say("git produced output while failing:"),
                          Echo("e.output", 0, calls[i].out, <<>>)>>
            /\ ~Called("find_fragments")

\* `git diff` against the default branch exited non-zero.
C7_Witness ==
    /\ DiffExitedNonZero
    /\ Called("git branch -r")
    /\ Len(echoed) = 2
    /\ echoed[2].text = "fatal: bad revision"

\* C8, as claimed: whenever a process the run invoked has exited non-zero,
\* its captured output has been echoed and the run has ended by the error.
C8_EveryFailureSurfaced_AsClaimed ==
    \A i \in DOMAIN calls :
        ~calls[i].ok =>
            /\ Ended
            /\ raised.type = "CalledProcessError"
            /\ exit_status # <<0>>
            /\ \E k \in DOMAIN echoed :
                  echoed[k].msg = "e.output" /\ echoed[k].text = calls[i].out

\* C9, as claimed: the encoding used is sys.stdout's when it has one, and
\* "utf8" both when the attribute is missing and when it is None; in
\* neither of these two cases does decoding raise for want of an encoding.
C9_EncodingFallback_AsClaimed ==
    pc # "encoding" =>
        /\ encoding = IF stdout_encoding \in {"absent", None} THEN "utf8"
                      ELSE stdout_encoding
        /\ stdout_encoding \in {"absent", None} => raised.type # "TypeError"

CallOrder == <<"git branch -r", "git diff --name-only", "find_fragments">>
Rank(fn) == CHOOSE k \in DOMAIN CallOrder : CallOrder[k] = fn

\* C10: the collaborators are invoked in the order branch listing, diff,
\* fragment discovery, each at most once; the branches are listed if and
\* only if --compare-with was not given, and a given branch is the diff's
\* baseline unchanged, with no warning; the diff is invoked only with a
\* resolved branch, never when there is none; fragment discovery is invoked
\* only after a successful diff with non-empty output that does not hold
\* the news file.
C10_CollaboratorOrder ==
    /\ \A i, j \in DOMAIN calls : i < j => Rank(calls[i].fn) < Rank(calls[j].fn)
    /\ pc \in {"encoding", "default_branch"} => calls = <<>>
    /\ pc \notin {"encoding", "default_branch"} =>
          (Called("git branch -r") <=> compare_with_option = None)
    /\ compare_with_option # None =>
          comparewith = compare_with_option /\ ~warned
    /\ \A i \in DOMAIN calls :
          calls[i].fn = "git diff --name-only" =>
              /\ comparewith # None
              /\ calls[i].branch = comparewith
              /\ Called("git branch -r") => calls[1].ok
    /\ outcome = "NoDefaultBranch" => ~Called("git diff --name-only")
    /\ Called("find_fragments") =>
          /\ DiffSucceeded
          /\ strip_text(diff_output) # <<>>
          /\ NewsFile \notin ChangedFileSet

\* All three collaborators were invoked, the branch being the default.
C10_Witness ==
    /\ Ended
    /\ compare_with_option = None
    /\ Len(calls) = 3
    /\ calls[2].branch = "origin/main"
    /\ outcome = "Found"

====
